---- MODULE Spec2Model ----
(***************************************************************************)
(* Rotation state machine of the Torn company bot (src/bot.py).            *)
(*                                                                         *)
(* The persisted document data.json is the variable disk.  Two processes   *)
(* touch it: the APScheduler job scheduled_sync, which is a plain function *)
(* and is therefore run by the scheduler in an executor thread, and the    *)
(* discord event loop, which runs one slash-command handler at a time      *)
(* (the handlers contain no await between their load and their last save). *)
(* Each action is one stretch of a handler that contains at most one       *)
(* access to the file, so every interleaving of file accesses of the two   *)
(* processes is a behaviour of the model.                                  *)
(***************************************************************************)
EXTENDS Integers, Sequences, FiniteSets, TLC

\* ------------------------------------------------------------------ bounds
MaxCycle == 2   \* rotation_cycle values explored
MaxClock == 2   \* successful syncs explored (values of the sync clock)
\* the entries of a company_employees the ranking is studied on
MaxEmps == 2
\* the characters of a Discord nickname verify_employee is studied on
MaxNick == 3
\* the on_ready events (first connect and reconnects) of a run
MaxReady == 6

\* -------------------------------------------------------- program constants
TrainsThreshold == 10

\* ------------------------------------------------------------------- names
\* A name is a sequence of characters.
Code(c) ==
    CASE c = " " -> 32 [] c = "A" -> 65 [] c = "B" -> 66 [] c = "[" -> 91
      [] c = "a" -> 97 [] c = "b" -> 98

IsSpace(c) == c = " "

\* str.casefold / str.lower on one character
FoldChar(c) == CASE c = "A" -> "a" [] c = "B" -> "b" [] OTHER -> c

RECURSIVE LStrip(_)
LStrip(s) == IF s # <<>> /\ IsSpace(Head(s)) THEN LStrip(Tail(s)) ELSE s

RECURSIVE RStrip(_)
RStrip(s) ==
    IF s # <<>> /\ IsSpace(s[Len(s)]) THEN RStrip(SubSeq(s, 1, Len(s) - 1)) ELSE s

\* re.sub(r"\s+", " ", s)
RECURSIVE CollapseSpaces(_)
CollapseSpaces(s) ==
    IF s = <<>> THEN <<>>
    ELSE IF IsSpace(Head(s)) THEN <<" ">> \o CollapseSpaces(LStrip(s))
    ELSE <<Head(s)>> \o CollapseSpaces(Tail(s))

Lower(s) == [i \in 1..Len(s) |-> FoldChar(s[i])]

\* re.sub(r"\s+", " ", name or "").strip().casefold()
norm(name) == Lower(RStrip(LStrip(CollapseSpaces(name))))

\* Python's < on str: lexicographic by code point
RECURSIVE StrLess(_, _)
StrLess(s, t) ==
    IF t = <<>> THEN FALSE
    ELSE IF s = <<>> THEN TRUE
    ELSE IF Code(Head(s)) # Code(Head(t)) THEN Code(Head(s)) < Code(Head(t))
    ELSE StrLess(Tail(s), Tail(t))

\* -------------------------------------------------------------- documents
NoFlags == [k \in {} |-> "N"]

\* load_data's default document; company_snapshot {} is <<>>, last_sync None is 0
EmptyDoc ==
    [employees |-> <<>>, trained |-> NoFlags, rotation_cycle |-> 0,
     company_snapshot |-> <<>>, last_sync |-> 0]

Range(s) == {s[i] : i \in 1..Len(s)}

\* trained.get(e, "N")
Flag(trained, e) == IF e \in DOMAIN trained THEN trained[e] ELSE "N"

\* all_trained without bool(emps): all() of nothing is True
all_trained_vacuous(data) ==
    \A e \in Range(data.employees) : Flag(data.trained, e) = "Y"

all_trained(data) ==
    /\ data.employees # <<>>
    /\ \A e \in Range(data.employees) : Flag(data.trained, e) = "Y"

\* reset_rotation that saves before line 98, with the old rotation_cycle
reset_doc_keeps_cycle(data) ==
    [data EXCEPT
       !.trained = [k \in DOMAIN data.trained \cup Range(data.employees) |->
                      IF k \in Range(data.employees) THEN "N" ELSE data.trained[k]]]

\* reset_rotation that bumps the cycle and leaves the flags as they are
reset_doc_keeps_flags(data) ==
    [data EXCEPT !.rotation_cycle = data.rotation_cycle + 1]

\* the document reset_rotation leaves in data and saves
reset_doc(data) ==
    [data EXCEPT
       !.trained = [k \in DOMAIN data.trained \cup Range(data.employees) |->
                      IF k \in Range(data.employees) THEN "N" ELSE data.trained[k]],
       !.rotation_cycle = data.rotation_cycle + 1]

\* ------------------------------------------------------------ the Torn API
\* what a request to the API can come to: TORN_API_KEY is empty; requests.get
\* or raise_for_status raises (unreachable, timeout, HTTP error); the JSON
\* lacks company_detailed or company_employees; or the answer is usable
FetchFailures == {"no_key", "request_error", "missing_keys"}
FetchOutcomes == FetchFailures \cup {"ok"}

\* get_company_data that returns the JSON without looking for its two keys
get_company_data_unchecked(outcome, answer) ==
    IF outcome \in {"no_key", "request_error"} THEN <<>> ELSE <<answer>>

\* get_company_data: <<>> is None
get_company_data(outcome, answer) ==
    IF outcome = "no_key" THEN <<>>
    ELSE IF outcome = "request_error" THEN <<>>
    ELSE IF outcome = "missing_keys" THEN <<>>
    ELSE <<answer>>

\* the key without the tenure: name.lower() alone
KeyLess_NameOnly(x, y) == StrLess(Lower(x.name), Lower(y.name))

\* sort key of one company_employees item: (-days_in_company, name.lower())
KeyLess(x, y) ==
    \/ -x.days < -y.days
    \/ x.days = y.days /\ StrLess(Lower(x.name), Lower(y.name))

\* sorted() is stable: x goes behind every entry whose key is not greater
RECURSIVE InsertSorted(_, _)
InsertSorted(x, s) ==
    IF s = <<>> THEN <<x>>
    ELSE IF KeyLess(x, Head(s)) THEN <<x>> \o s
    ELSE <<Head(s)>> \o InsertSorted(x, Tail(s))

RECURSIVE Sorted(_)
Sorted(items) ==
    IF items = <<>> THEN <<>>
    ELSE InsertSorted(items[Len(items)], Sorted(SubSeq(items, 1, Len(items) - 1)))

api_emps(company) ==
    LET s == Sorted(company.company_employees) IN [i \in 1..Len(s) |-> s[i].name]

\* the merge without "Drop leavers"
merge_keeps_leavers(trained, emps) ==
    [k \in DOMAIN trained \cup Range(emps) |->
       IF k \in DOMAIN trained THEN trained[k] ELSE "N"]

\* "Init new hires" with trained[e] = "N" in place of setdefault
merge_overwrites(trained, emps) == [k \in Range(emps) |-> "N"]

\* trained after "Drop leavers" and "Init new hires"
merge_trained(trained, emps) ==
    [k \in Range(emps) |-> IF k \in DOMAIN trained THEN trained[k] ELSE "N"]

\* the document sync_torn_data saves at line 221
sync_doc(base, company, stamp) ==
    [base EXCEPT
       !.trained = merge_trained(base.trained, api_emps(company)),
       !.employees = api_emps(company),
       !.company_snapshot = <<company>>,
       !.last_sync = stamp]

\* if all_trained(data): reset_rotation(data)
advance_doc(data) == IF all_trained(data) THEN reset_doc(data) ELSE data

\* company["company_detailed"].get("trains_available", 0), then int(... or 0)
trains_of(snapshot) ==
    IF snapshot = <<>> \/ snapshot[1].trains_available = <<>> THEN 0
    ELSE snapshot[1].trains_available[1]

\* ------------------------------------------------------------------ inputs
Emp(n, d) == [name |-> n, days |-> d]
Answer(emps, trains) == [company_employees |-> emps, trains_available |-> trains]

\* the answers get_company_data returns when it does not return None:
\* company_employees in the order the API lists them, and
\* company_detailed.trains_available (<<>> when the field is absent)
Companies ==
    { Answer(<<>>, <<10>>),
      Answer(<<Emp(<<"A">>, 2)>>, <<>>),
      Answer(<<Emp(<<"a">>, 1)>>, <<10>>),
      Answer(<<Emp(<<"A">>, 2), Emp(<<"B">>, 1)>>, <<9>>),
      Answer(<<Emp(<<"A">>, 1), Emp(<<"B">>, 2)>>, <<10>>),
      Answer(<<Emp(<<"A">>, 1), Emp(<<"a">>, 1)>>, <<9>>),
      Answer(<<Emp(<<"B">>, 1), Emp(<<"B">>, 1)>>, <<>>) }
\* the names typed into /train
TrainNames == {<<"a">>, <<" ", "B", " ">>, <<"b", "b">>}

VARIABLES
    disk,       \* data.json
    now,        \* the clock sync_torn_data stamps last_sync with
    spc,        \* scheduled_sync: where the scheduler thread is
    sfetch,     \* scheduled_sync: what the request to the API came to
    sbase,      \* scheduled_sync: base of sync_torn_data
    sprev,      \* scheduled_sync: the document load_data returned to the sync
    sok,        \* scheduled_sync: what sync_torn_data returned
    sdm,        \* scheduled_sync: the trains value DMed to the director, if any
    lcmd,       \* event loop: the slash command being handled
    lpc,        \* event loop: where the running command handler is
    lfetch,     \* event loop: what the request to the API came to
    ldata,      \* event loop: data (train_cmd, resetrotation), base (forceupdate)
    lprev,      \* event loop: the document load_data returned to the handler
    lname,      \* event loop: the name argument of /train
    ltarget,    \* event loop: target of train_cmd, <<e>> or <<>> for None
    lreply,     \* event loop: the followup the handler sends
    failed,     \* the processes whose running handler logged "Failed to save data.json"
    gone,       \* the names some sync has dropped and no later sync has taken in
    fin,        \* the argument of the function under study
    fout,       \* what the function under study returned
    synced,     \* _COMMANDS_SYNCED
    running,    \* scheduler.running
    jobs,       \* the scheduled_sync jobs the scheduler holds, pending or stored
    readies,    \* the on_ready events so far
    fired       \* the scheduled_sync runs the latest trigger time started

svars == <<spc, sfetch, sbase, sprev, sok, sdm>>
lvars == <<lcmd, lpc, lfetch, ldata, lprev, lname, ltarget, lreply>>
xvars == <<failed, gone, fin, fout>>
rvars == <<synced, running, jobs, readies, fired>>
vars == <<disk, now, svars, lvars, xvars, rvars>>

\* the bot is connected: on_ready has run once, the commands are synced and
\* the scheduler runs with its one job
Connected ==
    /\ synced = TRUE
    /\ running = TRUE
    /\ jobs = 1
    /\ readies = 1
    /\ fired = 0

Init ==
    /\ Connected
    /\ disk = EmptyDoc
    /\ now = 0
    /\ spc = "idle"
    /\ sfetch = "none"
    /\ sbase = EmptyDoc
    /\ sprev = EmptyDoc
    /\ sok = FALSE
    /\ sdm = <<>>
    /\ lcmd = "none"
    /\ lpc = "idle"
    /\ lfetch = "none"
    /\ ldata = EmptyDoc
    /\ lprev = EmptyDoc
    /\ lname = <<>>
    /\ ltarget = <<>>
    /\ lreply = "none"
    /\ failed = {}
    /\ gone = {}
    /\ fin = <<>>
    /\ fout = <<>>

\* the names a sync has dropped (line 211) and no later sync has taken in:
\* g before the sync, base as the sync loaded it, emps the roster it stores
departed(g, base, emps) ==
    (g \ Range(emps)) \cup (DOMAIN base.trained \ Range(emps))

\* ---------------------------------------------------------- scheduled_sync
\* line 244 -> 195: base = load_data()
SchedLoad ==
    /\ UNCHANGED rvars
    /\ spc = "idle"
    /\ disk.rotation_cycle < MaxCycle
    /\ spc' = "loaded"
    /\ sbase' = disk
    /\ sprev' = disk
    /\ UNCHANGED <<disk, now, sfetch, sok, sdm, lvars>>
    /\ UNCHANGED xvars

\* lines 196-199, 245-246: get_company_data() returned None
SchedFetchFail ==
    /\ UNCHANGED rvars
    /\ spc = "loaded"
    /\ \E outcome \in FetchOutcomes, answer \in Companies :
         /\ get_company_data(outcome, answer) = <<>>
         /\ sfetch' = outcome
    /\ sok' = FALSE
    /\ spc' = "returned"
    /\ UNCHANGED <<disk, now, sbase, sprev, sdm, lvars>>
    /\ UNCHANGED xvars

\* lines 196-221: the answer is merged into base and saved
SchedSave ==
    /\ UNCHANGED rvars
    /\ spc = "loaded"
    /\ now < MaxClock
    /\ \E outcome \in FetchOutcomes, answer \in Companies :
         /\ get_company_data(outcome, answer) # <<>>
         /\ sfetch' = outcome
         /\ sbase' = sync_doc(sbase, get_company_data(outcome, answer)[1], now + 1)
         /\ disk' = sbase'
    /\ now' = now + 1
    /\ spc' = "saved"
    /\ UNCHANGED <<sprev, sok, sdm, lvars>>
    /\ UNCHANGED xvars

\* lines 223-228: auto-reset, return True
SchedAdvance ==
    /\ UNCHANGED rvars
    /\ spc = "saved"
    /\ sbase' = advance_doc(sbase)
    /\ IF all_trained(sbase) THEN disk' = sbase' ELSE disk' = disk
    /\ sok' = TRUE
    /\ spc' = "synced"
    /\ UNCHANGED <<now, sfetch, sprev, sdm, lvars>>
    /\ UNCHANGED xvars

\* lines 247-250: reload, DM the director
SchedNotify ==
    /\ UNCHANGED rvars
    /\ spc = "synced"
    /\ sdm' = IF trains_of(disk.company_snapshot) >= TrainsThreshold
                THEN <<trains_of(disk.company_snapshot)>> ELSE <<>>
    /\ spc' = "returned"
    /\ UNCHANGED <<disk, now, sfetch, sbase, sprev, sok, lvars>>
    /\ UNCHANGED xvars

\* the job is over; its locals are gone
SchedReturn ==
    /\ UNCHANGED rvars
    /\ spc = "returned"
    /\ spc' = "idle"
    /\ sfetch' = "none"
    /\ sbase' = EmptyDoc
    /\ sprev' = EmptyDoc
    /\ sok' = FALSE
    /\ sdm' = <<>>
    /\ UNCHANGED <<disk, now, lvars>>
    /\ failed' = failed \ {"sched"}
    /\ UNCHANGED <<gone, fin, fout>>

\* ------------------------------------------------------------ /forceupdate
\* line 306 -> 195
ForceLoad ==
    /\ UNCHANGED rvars
    /\ lpc = "idle"
    /\ disk.rotation_cycle < MaxCycle
    /\ lcmd' = "forceupdate"
    /\ lpc' = "fu_loaded"
    /\ ldata' = disk
    /\ lprev' = disk
    /\ UNCHANGED <<disk, now, lfetch, lname, ltarget, lreply, svars>>
    /\ UNCHANGED xvars

\* lines 196-199, 310
ForceFetchFail ==
    /\ UNCHANGED rvars
    /\ lpc = "fu_loaded"
    /\ \E outcome \in FetchOutcomes, answer \in Companies :
         /\ get_company_data(outcome, answer) = <<>>
         /\ lfetch' = outcome
    /\ lreply' = "sync_failed"
    /\ lpc' = "replied"
    /\ UNCHANGED <<disk, now, lcmd, ldata, lprev, lname, ltarget, svars>>
    /\ UNCHANGED xvars

\* lines 196-221
ForceSave ==
    /\ UNCHANGED rvars
    /\ lpc = "fu_loaded"
    /\ now < MaxClock
    /\ \E outcome \in FetchOutcomes, answer \in Companies :
         /\ get_company_data(outcome, answer) # <<>>
         /\ lfetch' = outcome
         /\ ldata' = sync_doc(ldata, get_company_data(outcome, answer)[1], now + 1)
         /\ disk' = ldata'
    /\ now' = now + 1
    /\ lpc' = "fu_saved"
    /\ UNCHANGED <<lcmd, lprev, lname, ltarget, lreply, svars>>
    /\ UNCHANGED xvars

\* lines 223-228, 307-308
ForceAdvance ==
    /\ UNCHANGED rvars
    /\ lpc = "fu_saved"
    /\ ldata' = advance_doc(ldata)
    /\ IF all_trained(ldata) THEN disk' = ldata' ELSE disk' = disk
    /\ lreply' = "sync_ok"
    /\ lpc' = "replied"
    /\ UNCHANGED <<now, lcmd, lfetch, lprev, lname, ltarget, svars>>
    /\ UNCHANGED xvars

\* ------------------------------------------------------------------ /train
\* the lookup with nkey.startswith(norm(e)) in place of ==
RECURSIVE find_target_startswith(_, _)
find_target_startswith(employees, nkey) ==
    IF employees = <<>> THEN <<>>
    ELSE IF /\ Len(norm(Head(employees))) <= Len(nkey)
            /\ SubSeq(nkey, 1, Len(norm(Head(employees)))) = norm(Head(employees))
         THEN <<Head(employees)>>
    ELSE find_target_startswith(Tail(employees), nkey)

\* the lookup without the break: the last e with norm(e) == nkey
RECURSIVE find_target_last(_, _)
find_target_last(employees, nkey) ==
    IF employees = <<>> THEN <<>>
    ELSE IF find_target_last(Tail(employees), nkey) # <<>>
         THEN find_target_last(Tail(employees), nkey)
    ELSE IF norm(Head(employees)) = nkey THEN <<Head(employees)>>
    ELSE <<>>

\* the first e of employees with norm(e) == nkey, as <<e>>; <<>> for None
RECURSIVE find_target(_, _)
find_target(employees, nkey) ==
    IF employees = <<>> THEN <<>>
    ELSE IF norm(Head(employees)) = nkey THEN <<Head(employees)>>
    ELSE find_target(Tail(employees), nkey)

\* lines 439-452
TrainLoad ==
    /\ UNCHANGED rvars
    /\ lpc = "idle"
    /\ disk.rotation_cycle < MaxCycle
    /\ lcmd' = "train"
    /\ \E name \in TrainNames :
         /\ lname' = name
         /\ ltarget' = find_target(disk.employees, norm(name))
    /\ ldata' = disk
    /\ lprev' = disk
    /\ IF ltarget' = <<>>
         THEN lreply' = "not_found" /\ lpc' = "replied"
         ELSE lreply' = lreply /\ lpc' = "tr_loaded"
    /\ UNCHANGED <<disk, now, lfetch, svars>>
    /\ UNCHANGED xvars

\* train_cmd that loads the document again right before it marks and saves
TrainSave_Reloads ==
    /\ UNCHANGED rvars
    /\ lpc = "tr_loaded"
    /\ ldata' = [disk EXCEPT !.trained =
                   [k \in DOMAIN disk.trained \cup {ltarget[1]} |->
                      IF k = ltarget[1] THEN "Y" ELSE disk.trained[k]]]
    /\ disk' = ldata'
    /\ lpc' = "tr_saved"
    /\ UNCHANGED <<now, lcmd, lfetch, lprev, lname, ltarget, lreply, svars>>
    /\ UNCHANGED xvars

\* lines 454-455
TrainSave ==
    /\ UNCHANGED rvars
    /\ lpc = "tr_loaded"
    /\ ldata' = [ldata EXCEPT !.trained =
                   [k \in DOMAIN ldata.trained \cup {ltarget[1]} |->
                      IF k = ltarget[1] THEN "Y" ELSE ldata.trained[k]]]
    /\ disk' = ldata'
    /\ lpc' = "tr_saved"
    /\ UNCHANGED <<now, lcmd, lfetch, lprev, lname, ltarget, lreply, svars>>
    /\ UNCHANGED xvars

\* lines 458-467
TrainAdvance ==
    /\ UNCHANGED rvars
    /\ lpc = "tr_saved"
    /\ ldata' = advance_doc(ldata)
    /\ IF all_trained(ldata)
         THEN disk' = ldata' /\ lreply' = "marked_reset"
         ELSE disk' = disk /\ lreply' = "marked"
    /\ lpc' = "replied"
    /\ UNCHANGED <<now, lcmd, lfetch, lprev, lname, ltarget, svars>>
    /\ UNCHANGED xvars

\* ---------------------------------------------------------- /resetrotation
\* lines 481-484
ResetLoad ==
    /\ UNCHANGED rvars
    /\ lpc = "idle"
    /\ disk.rotation_cycle < MaxCycle
    /\ lcmd' = "resetrotation"
    /\ ldata' = disk
    /\ lprev' = disk
    /\ IF disk.employees = <<>>
         THEN lreply' = "no_employees" /\ lpc' = "replied"
         ELSE lreply' = lreply /\ lpc' = "rr_loaded"
    /\ UNCHANGED <<disk, now, lfetch, lname, ltarget, svars>>
    /\ UNCHANGED xvars

\* lines 485-489
ResetSave ==
    /\ UNCHANGED rvars
    /\ lpc = "rr_loaded"
    /\ ldata' = reset_doc(ldata)
    /\ disk' = ldata'
    /\ lreply' = "manual_reset"
    /\ lpc' = "replied"
    /\ UNCHANGED <<now, lcmd, lfetch, lprev, lname, ltarget, svars>>
    /\ UNCHANGED xvars

\* the handler is over; its locals are gone
LoopReturn ==
    /\ UNCHANGED rvars
    /\ lpc = "replied"
    /\ lcmd' = "none"
    /\ lpc' = "idle"
    /\ lfetch' = "none"
    /\ ldata' = EmptyDoc
    /\ lprev' = EmptyDoc
    /\ lname' = <<>>
    /\ ltarget' = <<>>
    /\ lreply' = "none"
    /\ UNCHANGED <<disk, now, svars>>
    /\ failed' = failed \ {"loop"}
    /\ UNCHANGED <<gone, fin, fout>>

\* the scheduler thread
SchedNext ==
    \/ SchedLoad
    \/ SchedFetchFail
    \/ SchedSave
    \/ SchedAdvance
    \/ SchedNotify
    \/ SchedReturn

\* the event loop
LoopNext ==
    \/ ForceLoad
    \/ ForceFetchFail
    \/ ForceSave
    \/ ForceAdvance
    \/ TrainLoad
    \/ TrainSave
    \/ TrainAdvance
    \/ ResetLoad
    \/ ResetSave
    \/ LoopReturn

Next == SchedNext \/ LoopNext

\* the program as it runs: the job's thread and the event loop interleave
Spec == Init /\ [][Next]_vars

\* the runs in which no handler starts while the other process is in one
SerialNext ==
    \/ lpc = "idle" /\ SchedLoad
    \/ lpc = "idle" /\ SchedFetchFail
    \/ lpc = "idle" /\ SchedSave
    \/ lpc = "idle" /\ SchedAdvance
    \/ lpc = "idle" /\ SchedNotify
    \/ lpc = "idle" /\ SchedReturn
    \/ spc = "idle" /\ ForceLoad
    \/ spc = "idle" /\ ForceFetchFail
    \/ spc = "idle" /\ ForceSave
    \/ spc = "idle" /\ ForceAdvance
    \/ spc = "idle" /\ TrainLoad
    \/ spc = "idle" /\ TrainSave
    \/ spc = "idle" /\ TrainAdvance
    \/ spc = "idle" /\ ResetLoad
    \/ spc = "idle" /\ ResetSave
    \/ spc = "idle" /\ LoopReturn

SpecSerial == Init /\ [][SerialNext]_vars

\* ------------------------------------------------- save_data that raises
\* lines 76-81: open() or json.dump() raises, the exception is logged and
\* swallowed; data.json is left as it was (open() raised) or cut short
\* (json.dump() raised), which load_data then reads as the default document
\* (lines 72-74)
FailedWrites(file) == {file, EmptyDoc}

\* lines 196-221 with the save_data of line 221 raising
SchedSaveRaises ==
    /\ UNCHANGED rvars
    /\ spc = "loaded"
    /\ now < MaxClock
    /\ \E outcome \in FetchOutcomes, answer \in Companies :
         /\ get_company_data(outcome, answer) # <<>>
         /\ sfetch' = outcome
         /\ sbase' = sync_doc(sbase, get_company_data(outcome, answer)[1], now + 1)
    /\ disk' \in FailedWrites(disk)
    /\ failed' = failed \cup {"sched"}
    /\ now' = now + 1
    /\ spc' = "saved"
    /\ UNCHANGED <<sprev, sok, sdm, lvars, gone, fin, fout>>

\* lines 196-221 in /forceupdate with the save_data of line 221 raising
ForceSaveRaises ==
    /\ UNCHANGED rvars
    /\ lpc = "fu_loaded"
    /\ now < MaxClock
    /\ \E outcome \in FetchOutcomes, answer \in Companies :
         /\ get_company_data(outcome, answer) # <<>>
         /\ lfetch' = outcome
         /\ ldata' = sync_doc(ldata, get_company_data(outcome, answer)[1], now + 1)
    /\ disk' \in FailedWrites(disk)
    /\ failed' = failed \cup {"loop"}
    /\ now' = now + 1
    /\ lpc' = "fu_saved"
    /\ UNCHANGED <<lcmd, lprev, lname, ltarget, lreply, svars, gone, fin, fout>>

\* lines 454-455 with the save_data of line 455 raising
TrainSaveRaises ==
    /\ UNCHANGED rvars
    /\ lpc = "tr_loaded"
    /\ ldata' = [ldata EXCEPT !.trained =
                   [k \in DOMAIN ldata.trained \cup {ltarget[1]} |->
                      IF k = ltarget[1] THEN "Y" ELSE ldata.trained[k]]]
    /\ disk' \in FailedWrites(disk)
    /\ failed' = failed \cup {"loop"}
    /\ lpc' = "tr_saved"
    /\ UNCHANGED <<now, lcmd, lfetch, lprev, lname, ltarget, lreply, svars,
                   gone, fin, fout>>

\* the serial runs in which a save_data may raise
SaveFailNext ==
    \/ SerialNext
    \/ lpc = "idle" /\ SchedSaveRaises
    \/ spc = "idle" /\ ForceSaveRaises
    \/ spc = "idle" /\ TrainSaveRaises

SpecSaveFail == Init /\ [][SaveFailNext]_vars

\* ------------------------------------------- the roster a sync stores
\* no handler is running
Quiet ==
    /\ spc = "idle"
    /\ sfetch = "none"
    /\ sbase = EmptyDoc
    /\ sprev = EmptyDoc
    /\ sok = FALSE
    /\ sdm = <<>>
    /\ lcmd = "none"
    /\ lpc = "idle"
    /\ lfetch = "none"
    /\ ldata = EmptyDoc
    /\ lprev = EmptyDoc
    /\ lname = <<>>
    /\ ltarget = <<>>
    /\ lreply = "none"
    /\ failed = {}
    /\ gone = {}

\* data.json before any sync and after the first one
SyncedDocs == {EmptyDoc} \cup {sync_doc(EmptyDoc, c, 1) : c \in Companies}

\* the company_employees entries the ranking is studied on
RankNames == {<<"A">>, <<"a">>, <<"B">>, <<" ", "b">>}
RankDays == {1, 2}
RankEntries == {Emp(n, d) : n \in RankNames, d \in RankDays}
Raws == UNION {[1..n -> RankEntries] : n \in 0..MaxEmps}

NotCalled == [done |-> FALSE, val |-> <<>>]
Returned(v) == [done |-> TRUE, val |-> v]

InitRank ==
    /\ Connected
    /\ Quiet
    /\ disk \in SyncedDocs
    /\ now = disk.last_sync
    /\ fin \in Raws
    /\ fout = NotCalled

\* lines 201-205, 218: the employees a sync stores for the company_employees
\* fin, whatever data.json held
RankSnapshot ==
    /\ UNCHANGED rvars
    /\ ~fout.done
    /\ fout' = Returned(sync_doc(disk, Answer(fin, <<>>), now + 1).employees)
    /\ UNCHANGED <<disk, now, svars, lvars, failed, gone, fin>>

SpecRank == InitRank /\ [][RankSnapshot]_vars

\* -------------------------------------------------------- verify_employee
\* re.split(r"\[|\(", nickname)[0]
RECURSIVE BeforeBracket(_)
BeforeBracket(s) ==
    IF s = <<>> THEN <<>>
    ELSE IF Head(s) \in {"[", "("} THEN <<>>
    ELSE <<Head(s)>> \o BeforeBracket(Tail(s))

\* line 132
base_name(nickname) == RStrip(LStrip(BeforeBracket(nickname)))

\* the loop of lines 140-144 with e == base_name in place of the norm()s
RECURSIVE find_match_raw(_, _)
find_match_raw(employees, base) ==
    IF employees = <<>> THEN <<>>
    ELSE IF Head(employees) = base THEN <<Head(employees)>>
    ELSE find_match_raw(Tail(employees), base)

\* lines 139-144: match, as <<e>>; <<>> for None
RECURSIVE find_match(_, _)
find_match(employees, base) ==
    IF employees = <<>> THEN <<>>
    ELSE IF norm(Head(employees)) = norm(base) THEN <<Head(employees)>>
    ELSE find_match(Tail(employees), base)

Outcome(k, m) == [kind |-> k, match |-> m]

\* lines 119-150, and 152-167 as the one outcome "matched"
verify_employee(role, employees, nickname) ==
    IF ~role THEN Outcome("no_role", <<>>)
    ELSE IF employees = <<>> THEN Outcome("no_employees", <<>>)
    ELSE IF base_name(nickname) = <<>> THEN Outcome("unparsed", <<>>)
    ELSE IF find_match(employees, base_name(nickname)) = <<>>
         THEN Outcome("no_match", <<>>)
    ELSE Outcome("matched", find_match(employees, base_name(nickname)))

\* member.nick or member.name: never empty
NickChars == {"A", "a", "B", " ", "[", "("}
Nicknames == UNION {[1..n -> NickChars] : n \in 1..MaxNick}

InitVerify ==
    /\ Connected
    /\ Quiet
    /\ disk \in SyncedDocs
    /\ now = disk.last_sync
    /\ fin \in [role : BOOLEAN, nick : Nicknames]
    /\ fout = NotCalled

\* /verify by a member whose display name is fin.nick
Verify ==
    /\ UNCHANGED rvars
    /\ ~fout.done
    /\ fout' = Returned(verify_employee(fin.role, disk.employees, fin.nick))
    /\ UNCHANGED <<disk, now, svars, lvars, failed, gone, fin>>

SpecVerify == InitVerify /\ [][Verify]_vars

\* ------------------------------------------------ departures and returns
\* data.json as an earlier run of the bot left it: a sync (stamped before
\* this run's clock starts) stored A and B, and /train a marked A
WorkedDoc ==
    [employees |-> <<<<"A">>, <<"B">>>>,
     trained |-> [k \in {<<"A">>, <<"B">>} |-> IF k = <<"A">> THEN "Y" ELSE "N"],
     rotation_cycle |-> 0,
     company_snapshot |-> <<Answer(<<Emp(<<"A">>, 2), Emp(<<"B">>, 1)>>, <<9>>)>>,
     last_sync |-> -1]

InitRejoin ==
    /\ Connected
    /\ Quiet
    /\ disk = WorkedDoc
    /\ now = 0
    /\ fin = <<>>
    /\ fout = <<>>

\* SchedSave, with the names line 211 drops noted in gone
SchedSaveNoting ==
    /\ UNCHANGED rvars
    /\ spc = "loaded"
    /\ now < MaxClock
    /\ \E outcome \in FetchOutcomes, answer \in Companies :
         /\ get_company_data(outcome, answer) # <<>>
         /\ sfetch' = outcome
         /\ sbase' = sync_doc(sbase, get_company_data(outcome, answer)[1], now + 1)
         /\ disk' = sbase'
    /\ now' = now + 1
    /\ spc' = "saved"
    /\ gone' = departed(gone, sbase, sbase'.employees)
    /\ UNCHANGED <<sprev, sok, sdm, lvars, failed, fin, fout>>

\* ForceSave, with the names line 211 drops noted in gone
ForceSaveNoting ==
    /\ UNCHANGED rvars
    /\ lpc = "fu_loaded"
    /\ now < MaxClock
    /\ \E outcome \in FetchOutcomes, answer \in Companies :
         /\ get_company_data(outcome, answer) # <<>>
         /\ lfetch' = outcome
         /\ ldata' = sync_doc(ldata, get_company_data(outcome, answer)[1], now + 1)
         /\ disk' = ldata'
    /\ now' = now + 1
    /\ lpc' = "fu_saved"
    /\ gone' = departed(gone, ldata, ldata'.employees)
    /\ UNCHANGED <<lcmd, lprev, lname, ltarget, lreply, svars, failed, fin, fout>>

\* the program as it runs, every departure noted
RejoinNext ==
    \/ SchedLoad
    \/ SchedFetchFail
    \/ SchedSaveNoting
    \/ SchedAdvance
    \/ SchedNotify
    \/ SchedReturn
    \/ ForceLoad
    \/ ForceFetchFail
    \/ ForceSaveNoting
    \/ ForceAdvance
    \/ TrainLoad
    \/ TrainSave
    \/ TrainAdvance
    \/ ResetLoad
    \/ ResetSave
    \/ LoopReturn

SpecRejoin == InitRejoin /\ [][RejoinNext]_vars

\* ---------------------------------------------------------------- on_ready
\* the bot as constructed: nothing synced, scheduler = AsyncIOScheduler(...)
\* not started and without jobs
InitReady ==
    /\ Quiet
    /\ disk = EmptyDoc
    /\ now = 0
    /\ fin = <<>>
    /\ fout = <<>>
    /\ synced = FALSE
    /\ running = FALSE
    /\ jobs = 0
    /\ readies = 0
    /\ fired = 0

\* lines 257-271: bot.tree.sync unless _COMMANDS_SYNCED; when it raises the
\* flag stays False
CommandsSync ==
    /\ readies < MaxReady
    /\ readies' = readies + 1
    /\ synced' \in (IF synced THEN {TRUE} ELSE BOOLEAN)

\* lines 276-280: add_job and start both return
ReadyStart ==
    /\ CommandsSync
    /\ ~running
    /\ jobs' = jobs + 1
    /\ running' = TRUE
    /\ UNCHANGED <<disk, now, svars, lvars, xvars, fired>>

\* lines 276-282: add_job returns (the scheduler is not running, so the job
\* is held as pending), start raises and the exception is logged; start
\* raises before it sets the scheduler running, or after
ReadyStartRaises ==
    /\ CommandsSync
    /\ ~running
    /\ jobs' = jobs + 1
    /\ running' \in BOOLEAN
    /\ UNCHANGED <<disk, now, svars, lvars, xvars, fired>>

\* lines 276-282: add_job raises and the exception is logged
ReadyAddJobRaises ==
    /\ CommandsSync
    /\ ~running
    /\ UNCHANGED <<disk, now, svars, lvars, xvars, running, jobs, fired>>

\* lines 276-277: scheduler.running, nothing to start
ReadyAgain ==
    /\ CommandsSync
    /\ running
    /\ UNCHANGED <<disk, now, svars, lvars, xvars, running, jobs, fired>>

\* SYNC_HOUR:SYNC_MINUTE comes: the running scheduler starts scheduled_sync
\* once for every job it holds
Trigger ==
    /\ running
    /\ fired' = jobs
    /\ UNCHANGED <<disk, now, svars, lvars, xvars, synced, running, jobs, readies>>

ReadyNext ==
    \/ ReadyStart
    \/ ReadyStartRaises
    \/ ReadyAddJobRaises
    \/ ReadyAgain
    \/ Trigger

SpecReady == InitReady /\ [][ReadyNext]_vars

\* ================================================================ claims
\* the steps of sync_torn_data, in the scheduler thread or in /forceupdate
SchedSaveStep    == spc = "loaded" /\ spc' = "saved"
SchedAdvanceStep == spc = "saved" /\ spc' = "synced"
ForceSaveStep    == lpc = "fu_loaded" /\ lpc' = "fu_saved"
ForceAdvanceStep == lpc = "fu_saved" /\ lpc' = "replied"

\* every member of the roster has a flag and it is "Y"; the roster is not empty
AllMarked(d) ==
    /\ Len(d.employees) > 0
    /\ \A i \in 1..Len(d.employees) :
         d.employees[i] \in DOMAIN d.trained /\ d.trained[d.employees[i]] = "Y"

\* C1: in every persisted state the key set of trained is exactly the set of
\* identifiers in employees: no orphaned key, no missing key.
C1_KeySetIsRoster ==
    /\ DOMAIN disk.trained \subseteq Range(disk.employees)
    /\ Range(disk.employees) \subseteq DOMAIN disk.trained

\* a sync has just persisted a roster that lost one member and gained another
C1_Witness ==
    /\ spc = "saved"
    /\ disk = sbase
    /\ DOMAIN sprev.trained \ Range(sbase.employees) # {}
    /\ Range(sbase.employees) \ DOMAIN sprev.trained # {}

\* the flags of post agree with those of pre on every identifier they share
FlagsKept(pre, post) ==
    \A k \in DOMAIN pre.trained \cap Range(post.employees) :
        k \in DOMAIN post.trained /\ post.trained[k] = pre.trained[k]

\* C2: the reconciliation of a sync leaves the flag of every retained
\* identifier (in the loaded completion map and in the new roster) as it was,
\* in the document it builds and in the one it persists.
C2_ProgressPreserved ==
    [][ /\ SchedSaveStep => FlagsKept(sbase, sbase') /\ FlagsKept(sbase, disk')
        /\ ForceSaveStep => FlagsKept(ldata, ldata') /\ FlagsKept(ldata, disk') ]_vars

\* a sync has reconciled a roster that retains a marked member and adds another
C2_Witness ==
    /\ spc = "saved"
    /\ \E k \in DOMAIN sprev.trained \cap DOMAIN sbase.trained :
         sprev.trained[k] = "Y" /\ sbase.trained[k] = "Y"
    /\ Range(sbase.employees) \ DOMAIN sprev.trained # {}

\* post is pre after exactly one advance, and is not complete itself
AdvancedOnce(pre, post) ==
    /\ post.rotation_cycle = pre.rotation_cycle + 1
    /\ post.employees = pre.employees
    /\ DOMAIN post.trained = DOMAIN pre.trained
    /\ \A k \in DOMAIN post.trained : post.trained[k] = "N"
    /\ ~AllMarked(post)

\* C3: when the reconciled roster of a sync is non-empty and every member is
\* marked, the sync advances exactly once: all flags "N", the cycle counter one
\* above the loaded one, persisted; the advance check on the result changes
\* nothing.
C3_SingleAdvance ==
    [][ /\ (SchedAdvanceStep /\ AllMarked(sbase)) =>
              /\ AdvancedOnce(sbase, sbase')
              /\ sbase'.rotation_cycle = sprev.rotation_cycle + 1
              /\ disk' = sbase'
              /\ advance_doc(sbase') = sbase'
        /\ (ForceAdvanceStep /\ AllMarked(ldata)) =>
              /\ AdvancedOnce(ldata, ldata')
              /\ ldata'.rotation_cycle = lprev.rotation_cycle + 1
              /\ disk' = ldata'
              /\ advance_doc(ldata') = ldata' ]_vars

\* a sync advanced only because the unmarked members departed
C3_Witness ==
    /\ spc = "synced"
    /\ Len(sbase.employees) > 0
    /\ sbase.rotation_cycle = sprev.rotation_cycle + 1
    /\ \E k \in DOMAIN sprev.trained :
         sprev.trained[k] = "N" /\ k \notin Range(sbase.employees)
    /\ \E k \in DOMAIN sprev.trained :
         sprev.trained[k] = "Y" /\ k \in Range(sbase.employees)
    /\ disk = sbase

\* C4: a sync whose new roster is empty persists an empty completion map and
\* the loaded cycle counter, and its advance check changes nothing.
C4_EmptyRosterNoAdvance ==
    [][ /\ (SchedSaveStep /\ sbase'.employees = <<>>) =>
              /\ disk'.employees = <<>>
              /\ DOMAIN disk'.trained = {}
              /\ disk'.rotation_cycle = sprev.rotation_cycle
        /\ (SchedAdvanceStep /\ sbase.employees = <<>>) =>
              /\ sbase' = sbase
              /\ disk' = disk
              /\ sbase'.rotation_cycle = sprev.rotation_cycle
        /\ (ForceSaveStep /\ ldata'.employees = <<>>) =>
              /\ disk'.employees = <<>>
              /\ DOMAIN disk'.trained = {}
              /\ disk'.rotation_cycle = lprev.rotation_cycle
        /\ (ForceAdvanceStep /\ ldata.employees = <<>>) =>
              /\ ldata' = ldata
              /\ disk' = disk
              /\ ldata'.rotation_cycle = lprev.rotation_cycle ]_vars

\* a sync that lost every member of a non-empty roster has returned
C4_Witness ==
    /\ spc = "synced"
    /\ sbase.employees = <<>>
    /\ Len(sprev.employees) > 0
    /\ disk = sbase

\* the steps of the other handlers that write the file
TrainSaveStep    == lpc = "tr_loaded" /\ lpc' = "tr_saved"
TrainAdvanceStep == lpc = "tr_saved" /\ lpc' = "replied"
ResetSaveStep    == lpc = "rr_loaded" /\ lpc' = "replied"

\* a step in which reset_rotation runs
ResetRotationStep ==
    \/ SchedAdvanceStep /\ AllMarked(sbase)
    \/ ForceAdvanceStep /\ AllMarked(ldata)
    \/ TrainAdvanceStep /\ AllMarked(ldata)
    \/ ResetSaveStep

\* C5: in every interleaving of scheduled syncs, /forceupdate, /train and
\* /resetrotation the persisted cycle counter never decreases, and every reset
\* raises it by exactly 1.
C5_CycleMonotonic ==
    [][ /\ disk'.rotation_cycle >= disk.rotation_cycle
        /\ ResetRotationStep => disk'.rotation_cycle = disk.rotation_cycle + 1 ]_vars

\* C6: a sync whose request fails (no API key, request error, answer without
\* company_detailed / company_employees) returns False and writes nothing: no
\* step of it changes the persisted document, and the scheduled job sends no
\* DM for it.
C6_FailedFetchWritesNothing ==
    [][ /\ (spc # spc' /\ (sfetch \in FetchFailures \/ sfetch' \in FetchFailures)) =>
              /\ disk' = disk
              /\ spc' \in {"returned", "idle"}
              /\ sok' = FALSE
              /\ sdm' = <<>>
        /\ (lpc # lpc' /\ (lfetch \in FetchFailures \/ lfetch' \in FetchFailures)) =>
              /\ disk' = disk
              /\ lpc' \in {"replied", "idle"}
              /\ lpc' = "replied" => lreply' = "sync_failed" ]_vars

\* a failed scheduled sync has returned over a document holding a roster,
\* marks, a bumped cycle counter, a snapshot and a last_sync
C6_Witness ==
    /\ spc = "returned"
    /\ sfetch \in FetchFailures
    /\ lpc = "idle"
    /\ disk = sprev
    /\ disk.rotation_cycle > 0
    /\ disk.last_sync > 0
    /\ trains_of(disk.company_snapshot) >= TrainsThreshold
    /\ Len(disk.employees) > 1

\* C7: a sync persists one coherent next state: when it triggers an advance, no
\* document with the new roster, every flag "Y" and the old cycle counter is on
\* disk between its steps.
C7_SyncWrittenAsUnit ==
    /\ ~(spc = "saved" /\ disk = sbase /\ AllMarked(disk)
           /\ disk.rotation_cycle = sprev.rotation_cycle)
    /\ ~(lpc = "fu_saved" /\ disk = ldata /\ AllMarked(disk)
           /\ disk.rotation_cycle = lprev.rotation_cycle)

\* C8: no writer looks at the file again before it saves: a sync persists the
\* cycle counter and the retained flags it loaded, /train persists the roster,
\* the snapshot, the cycle counter and the other flags it loaded, whatever the
\* other writer saved in between.
C8_SaveOverwrites ==
    [][ /\ SchedSaveStep =>
              /\ disk'.rotation_cycle = sprev.rotation_cycle
              /\ FlagsKept(sprev, disk')
        /\ TrainSaveStep =>
              /\ disk'.employees = lprev.employees
              /\ disk'.company_snapshot = lprev.company_snapshot
              /\ disk'.last_sync = lprev.last_sync
              /\ disk'.rotation_cycle = lprev.rotation_cycle
              /\ FlagsKept([lprev EXCEPT !.trained =
                              [k \in DOMAIN lprev.trained \ {ltarget[1]} |->
                                 lprev.trained[k]]], disk') ]_vars

\* /train has just reported its target as marked, and on disk the target is
\* unmarked: a scheduled sync that loaded before the mark saved after it; the
\* target never left the roster and neither writer advanced the cycle
C8_Witness ==
    /\ lpc = "replied" /\ lreply = "marked"
    /\ spc = "synced"
    /\ ltarget[1] \in DOMAIN sprev.trained
    /\ ltarget[1] \in DOMAIN disk.trained
    /\ sprev.trained[ltarget[1]] = "N"
    /\ ldata.trained[ltarget[1]] = "Y"
    /\ disk.trained[ltarget[1]] = "N"
    /\ disk = sbase
    /\ sbase.rotation_cycle = sprev.rotation_cycle
    /\ ldata.rotation_cycle = sprev.rotation_cycle

\* C9: a scheduled sync sends exactly one DM, carrying the trains value, iff
\* it succeeded and the trains_available of the snapshot it fetched (0 when
\* absent) is at least 10; otherwise none.
C9_NotifyIffThreshold ==
    spc = "returned" =>
        IF sok /\ trains_of(sbase.company_snapshot) >= TrainsThreshold
          THEN sdm = <<trains_of(sbase.company_snapshot)>>
          ELSE sdm = <<>>

\* no member of the roster has the normalized form of name
NoMatch(employees, name) ==
    \A i \in 1..Len(employees) : norm(employees[i]) # norm(name)

\* C10: /train with a name whose normalized form is that of no roster member
\* replies "not found" and returns without saving: the persisted document is
\* unchanged; "not found" is the reply in no other case.
C10_TrainNotFound ==
    /\ [][ /\ (lpc = "idle" /\ lcmd' = "train" /\ NoMatch(disk.employees, lname')) =>
                 /\ lreply' = "not_found"
                 /\ lpc' = "replied"
                 /\ disk' = disk
           /\ (lpc # lpc' /\ lreply = "not_found") =>
                 /\ lpc' = "idle"
                 /\ disk' = disk ]_vars
    /\ [](lreply = "not_found" =>
            /\ lpc = "replied" /\ lcmd = "train"
            /\ NoMatch(lprev.employees, lname)
            /\ ldata = lprev)

\* /train bb was answered "not found" over a roster of two members
C10_Witness ==
    /\ lreply = "not_found"
    /\ lname = <<"b", "b">>
    /\ Len(lprev.employees) = 2
    /\ disk = lprev

\* ---------------------------------------------------------------------
\* C11  Persistence failure: when save_data fails during a sync or a /train,
\* the operation counts as failed: sync_torn_data does not return True, the
\* command does not answer that it synced or marked, and data.json still
\* reads as it did when the handler loaded it.
C11_FailedSaveFailsOperation ==
    /\ ("sched" \in failed /\ spc \in {"synced", "returned"}) => ~sok
    /\ ("loop" \in failed /\ lpc = "replied")
         => lreply \notin {"sync_ok", "marked", "marked_reset"}
    /\ "sched" \in failed => disk = sprev
    /\ "loop" \in failed => disk = lprev

\* ---------------------------------------------------------------------
\* C12  Ranking.  The permutations of 1..n, and a roster being the names of
\* the entries of raw taken in the order p.
Perms(n) == {p \in [1..n -> 1..n] : \A i, j \in 1..n : i # j => p[i] # p[j]}
TakenInOrder(raw, roster, p) ==
    /\ Len(roster) = Len(raw)
    /\ \A i \in 1..Len(raw) : roster[i] = raw[p[i]].name

\* C12 as stated: the roster a sync stores is the entries of the snapshot
\* sorted by tenure descending, equal tenures by ascending normalized name.
C12_RankedByNormalizedName ==
    fout.done =>
      \E p \in Perms(Len(fin)) :
        /\ TakenInOrder(fin, fout.val, p)
        /\ \A i, j \in 1..Len(fin) : i < j =>
             \/ fin[p[i]].days > fin[p[j]].days
             \/ /\ fin[p[i]].days = fin[p[j]].days
                /\ ~StrLess(norm(fin[p[j]].name), norm(fin[p[i]].name))

\* C12 amended: the roster a sync stores is the entries of the snapshot
\* sorted by tenure descending, equal tenures by ascending lower-cased name
\* (no whitespace normalisation), entries equal in both kept in snapshot
\* order; it is a function of the snapshot alone.
C12_RankedByLowerName ==
    fout.done =>
      \E p \in Perms(Len(fin)) :
        /\ TakenInOrder(fin, fout.val, p)
        /\ \A i, j \in 1..Len(fin) : i < j =>
             \/ fin[p[i]].days > fin[p[j]].days
             \/ /\ fin[p[i]].days = fin[p[j]].days
                /\ StrLess(Lower(fin[p[i]].name), Lower(fin[p[j]].name))
             \/ /\ fin[p[i]].days = fin[p[j]].days
                /\ Lower(fin[p[i]].name) = Lower(fin[p[j]].name)
                /\ p[i] < p[j]

\* a snapshot listed against the ranking (shorter tenure first) was ranked
\* over a data.json that held another roster
C12_Witness ==
    /\ fout.done
    /\ Len(fin) = 2
    /\ fin[1].days < fin[2].days
    /\ fout.val = <<fin[2].name, fin[1].name>>
    /\ disk.employees # <<>>

\* ---------------------------------------------------------------------
\* C13  No duplicate roster entries: the employees of data.json never lists
\* an identifier twice, whatever the snapshots of the syncs held.
C13_NoDuplicateEntries ==
    \A i, j \in 1..Len(disk.employees) :
      i # j => disk.employees[i] # disk.employees[j]

\* ---------------------------------------------------------------------
\* C14  Identity resolution.  The candidate of a display name: the text
\* before its first "[" or "(" (all of it when it has neither), without the
\* whitespace at its ends.
CutAt(s) ==
    IF \E i \in 1..Len(s) : s[i] \in {"[", "("}
      THEN (CHOOSE i \in 1..Len(s) :
              /\ s[i] \in {"[", "("}
              /\ \A j \in 1..(i - 1) : s[j] \notin {"[", "("}) - 1
      ELSE Len(s)
Inked(s, n) == {i \in 1..n : s[i] # " "}
Candidate(s) ==
    IF Inked(s, CutAt(s)) = {} THEN <<>>
    ELSE SubSeq(s,
                CHOOSE a \in Inked(s, CutAt(s)) : \A b \in Inked(s, CutAt(s)) : a <= b,
                CHOOSE a \in Inked(s, CutAt(s)) : \A b \in Inked(s, CutAt(s)) : a >= b)
Matches(employees, cand) ==
    {i \in 1..Len(employees) : norm(employees[i]) = norm(cand)}
Resolved(employees, cand, out) ==
    IF cand = <<>> THEN out.kind = "unparsed"
    ELSE IF Matches(employees, cand) = {} THEN out.kind = "no_match"
    ELSE /\ out.kind = "matched"
         /\ \E i \in Matches(employees, cand) :
              /\ out.match = <<employees[i]>>
              /\ \A j \in Matches(employees, cand) : i <= j

\* C14 as stated: verification answers with the first roster entry whose
\* normalized form equals the normalized candidate, "no match" when there is
\* none, and a different outcome when the candidate is empty.
C14_Resolves ==
    (fout.done /\ fin.role) => Resolved(disk.employees, Candidate(fin.nick), fout.val)

\* C14 amended: so it is when the roster is not empty; with an empty roster
\* verification answers "no employees loaded" whatever the display name.
\* Verification never writes data.json.
C14_ResolvesOnRoster ==
    /\ [](fout.done /\ fin.role =>
            IF disk.employees = <<>> THEN fout.val.kind = "no_employees"
            ELSE Resolved(disk.employees, Candidate(fin.nick), fout.val))
    /\ [][disk' = disk]_vars

\* a display name with a bracket was resolved to the first of two roster
\* entries of one normalized form, which is not the candidate as typed
C14_Witness ==
    /\ fout.done
    /\ fout.val.kind = "matched"
    /\ \E i \in 1..Len(fin.nick) : fin.nick[i] = "["
    /\ Len(disk.employees) = 2
    /\ norm(disk.employees[1]) = norm(disk.employees[2])
    /\ fout.val.match = <<disk.employees[1]>>
    /\ Candidate(fin.nick) # disk.employees[1]

\* ---------------------------------------------------------------------
\* file is what reset_rotation leaves on disk in one write over the document
\* pre of its caller: every flag "N" and the cycle counter one above
AdvanceWritten(pre, file) ==
    /\ file.rotation_cycle = pre.rotation_cycle + 1
    /\ file.employees = pre.employees
    /\ file.company_snapshot = pre.company_snapshot
    /\ DOMAIN file.trained = DOMAIN pre.trained
    /\ \A k \in DOMAIN file.trained : file.trained[k] = "N"

\* C15  Atomic advance: the step in which a sync, /train or /resetrotation
\* advances writes the cleared flags and the raised cycle counter to
\* data.json together; an advance check that does not advance writes nothing.
\* No step writes the one without the other.
C15_AdvanceIsOneWrite ==
    [][ /\ SchedAdvanceStep =>
              IF AllMarked(sbase) THEN AdvanceWritten(sbase, disk') ELSE disk' = disk
        /\ ForceAdvanceStep =>
              IF AllMarked(ldata) THEN AdvanceWritten(ldata, disk') ELSE disk' = disk
        /\ TrainAdvanceStep =>
              IF AllMarked(ldata) THEN AdvanceWritten(ldata, disk') ELSE disk' = disk
        /\ ResetSaveStep => AdvanceWritten(ldata, disk') ]_vars

\* /resetrotation has just reset a roster in which one member was marked and
\* another was not
C15_Witness ==
    /\ lpc = "replied" /\ lreply = "manual_reset"
    /\ \E k \in DOMAIN lprev.trained : lprev.trained[k] = "Y"
    /\ \E k \in DOMAIN lprev.trained : lprev.trained[k] = "N"
    /\ disk = ldata
    /\ disk.rotation_cycle = lprev.rotation_cycle + 1
    /\ \A k \in DOMAIN disk.trained : disk.trained[k] = "N"

\* ---------------------------------------------------------------------
\* C16  Reconciliation matches members through norm: a name of the new
\* roster that has the normalized form of exactly one loaded key (differing
\* from it in case or whitespace at most) is retained and keeps the flag of
\* that key.
C16_RetainedByNormalizedName ==
    [][ SchedSaveStep =>
          \A k \in DOMAIN sbase.trained, e \in Range(sbase'.employees) :
            ( /\ norm(e) = norm(k)
              /\ \A k2 \in DOMAIN sbase.trained : norm(k2) = norm(k) => k2 = k )
            => sbase'.trained[e] = sbase.trained[k] ]_vars

\* ---------------------------------------------------------------------
\* new is base after the reconciliation of a sync: the keys of trained are
\* the names of the new roster, the names base had no key for are "N", and
\* so are the names of left, which an earlier sync dropped
Reconciled(base, new, left) ==
    /\ DOMAIN new.trained = Range(new.employees)
    /\ \A e \in Range(new.employees) \ DOMAIN base.trained : new.trained[e] = "N"
    /\ \A e \in Range(new.employees) \cap left : new.trained[e] = "N"

\* C17  Departures and newcomers: a sync removes every name absent from the
\* new roster and adds every new name unmarked; so a member whom one sync
\* dropped and a later sync takes in again is unmarked after that later
\* reconciliation.
C17_RejoinedUnmarked ==
    [][ /\ SchedSaveStep => Reconciled(sbase, sbase', gone)
        /\ ForceSaveStep => Reconciled(ldata, ldata', gone) ]_vars

\* ---------------------------------------------------------------------
\* C18  Empty roster suppresses notification: a scheduled sync whose new
\* roster is empty sends no DM, whatever trains_available is.
C18_EmptyRosterNoDM ==
    (spc = "returned" /\ sok /\ sbase.employees = <<>>) => sdm = <<>>

\* ---------------------------------------------------------------------
\* post is pre with the flag of target "Y" and nothing else changed
MarkedOnly(pre, post, target) ==
    /\ post.employees = pre.employees
    /\ post.rotation_cycle = pre.rotation_cycle
    /\ post.company_snapshot = pre.company_snapshot
    /\ post.last_sync = pre.last_sync
    /\ DOMAIN post.trained = DOMAIN pre.trained \cup {target}
    /\ post.trained[target] = "Y"
    /\ \A k \in DOMAIN pre.trained \ {target} : post.trained[k] = pre.trained[k]

\* C19  Manual mark, match: /train with a name whose normalized form is that
\* of a roster member marks the first such member in roster order and no
\* other, saves, and runs the advance check: when every member is then marked
\* all flags become "N" and the cycle counter rises by 1 in the same command;
\* otherwise flags, roster order and cycle counter stay as marked.
C19_TrainMarksFirstMatch ==
    /\ [][ /\ (lpc = "idle" /\ lcmd' = "train" /\ ~NoMatch(disk.employees, lname')) =>
                 /\ lpc' = "tr_loaded"
                 /\ \E i \in Matches(disk.employees, lname') :
                      /\ ltarget' = <<disk.employees[i]>>
                      /\ \A j \in Matches(disk.employees, lname') : i <= j
                 /\ ldata' = disk
                 /\ disk' = disk
           /\ TrainSaveStep =>
                 /\ MarkedOnly(ldata, ldata', ltarget[1])
                 /\ disk' = ldata'
           /\ TrainAdvanceStep =>
                 IF AllMarked(ldata)
                   THEN /\ AdvanceWritten(ldata, ldata')
                        /\ disk' = ldata'
                        /\ lreply' = "marked_reset"
                   ELSE /\ ldata' = ldata
                        /\ disk' = disk
                        /\ lreply' = "marked" ]_vars
    /\ [](lreply = "marked" => MarkedOnly(lprev, ldata, ltarget[1]))
    /\ [](lreply = "marked_reset" => AdvanceWritten(lprev, ldata))

\* /train " B " marked B, the second and last unmarked of two members, and
\* reset the rotation
C19_Witness ==
    /\ lpc = "replied" /\ lreply = "marked_reset"
    /\ lname = <<" ", "B", " ">>
    /\ ltarget = <<<<"B">>>>
    /\ Len(lprev.employees) = 2
    /\ \E k \in DOMAIN lprev.trained : lprev.trained[k] = "Y"
    /\ disk = ldata
    /\ disk.rotation_cycle = lprev.rotation_cycle + 1

\* ---------------------------------------------------------------------
\* a handler's document goes from pre to post with the cycle counter changed,
\* or with a flag of a member it keeps cleared
Resets(pre, post) ==
    \/ post.rotation_cycle # pre.rotation_cycle
    \/ \E k \in DOMAIN pre.trained \cap DOMAIN post.trained :
         pre.trained[k] = "Y" /\ post.trained[k] = "N"

\* the steps of a handler between its load and its return
SchedWorks == spc \in {"loaded", "saved", "synced"} /\ spc' # "idle"
LoopWorks  == lpc \notin {"idle", "replied"} /\ lpc' # "idle"

\* C20 as stated: flags are cleared and the cycle counter changed only over
\* a non-empty roster with every member marked; no operation, /resetrotation
\* included, does so while a member is unmarked.
C20_ResetOnlyWhenComplete ==
    [][ /\ (SchedWorks /\ Resets(sbase, sbase')) => AllMarked(sbase)
        /\ (LoopWorks /\ Resets(ldata, ldata')) => AllMarked(ldata) ]_vars

\* C20 amended: a sync and /train clear flags and raise the cycle counter
\* only over a non-empty roster with every member marked; /resetrotation
\* does so over any non-empty roster, marked or not; nothing else does, and
\* each time the counter rises by exactly 1 with every flag cleared.
C20_ResetWhenCompleteOrManual ==
    [][ /\ (SchedWorks /\ Resets(sbase, sbase')) =>
              /\ AllMarked(sbase)
              /\ AdvanceWritten(sbase, sbase')
        /\ (LoopWorks /\ Resets(ldata, ldata')) =>
              /\ \/ lcmd \in {"forceupdate", "train"} /\ AllMarked(ldata)
                 \/ lcmd = "resetrotation" /\ Len(ldata.employees) > 0
              /\ AdvanceWritten(ldata, ldata') ]_vars

\* a sync has advanced the rotation after /resetrotation had reset it by
\* hand: the counter is at 2
C20_Witness ==
    /\ spc = "synced"
    /\ AllMarked(sprev)
    /\ sbase.rotation_cycle = sprev.rotation_cycle + 1
    /\ sbase.rotation_cycle = 2
    /\ disk = sbase

\* ---------------------------------------------------------------------
\* C21  Single scheduler registration: over any number of on_ready events,
\* those in which scheduler.start() raised included, the scheduler holds the
\* scheduled_sync job at most once, and a trigger time starts at most one
\* scheduled sync.
C21_JobRegisteredOnce ==
    /\ jobs <= 1
    /\ fired <= 1

====
